---- MODULE Spec2Model ----
(***************************************************************************)
(* The framing layer of pyhdb/protocol/base.py: Message, Segment and Part  *)
(* encoders and decoders over byte buffers, and the part-kind registry.    *)
(*                                                                         *)
(* Bytes are integers 0..255 and a byte string is a sequence of them.      *)
(* Integers of the model are TLC's 32-bit integers: a value that the model *)
(* holds always fits struct's 'i' and 'q', and never exceeds 'I' from      *)
(* above.  Native byte order ('qiIIhb9B', 'bbb8x') is taken little-endian  *)
(* with no alignment gap, as on x86-64, where both layouts are packed.     *)
(***************************************************************************)
EXTENDS Integers, Sequences, FiniteSets, TLC

VARIABLES part_mapping, classes, call

vars == <<part_mapping, classes, call>>

(* ------------------------------ constants ------------------------------ *)

MAX_MESSAGE_SIZE == 131072

MESSAGE_HEADER_SIZE == 32

MAX_SEGMENT_SIZE == MAX_MESSAGE_SIZE - MESSAGE_HEADER_SIZE

SEGMENT_HEADER_SIZE == 24

PART_HEADER_SIZE == 16

\* part_kinds.ROWSAFFECTED and part_kinds.ERROR (pyhdb.protocol.constants)
ROWSAFFECTED == 12

ERROR == 6

(* ------------------------------- bounds -------------------------------- *)

\* longest small payload a part carries, in bytes
MaxLen == 9

\* most parts in a segment that is packed
MaxParts == 2

\* most segments in a message that is packed
MaxSegments == 2

\* most parts in a segment of a reply
MaxReplyParts == 2

\* most segments in the body of a reply
MaxReplySegments == 2

(* ------------------------------- struct -------------------------------- *)

\* width in bytes of one format character ('x' is a pad byte)
Width(c) ==
  CASE c \in {"b", "B", "x"} -> 1
    [] c = "h" -> 2
    [] c \in {"i", "I"} -> 4
    [] c = "q" -> 8

\* struct's range check of one value
InRange(c, v) ==
  CASE c = "b" -> v >= -128 /\ v <= 127
    [] c = "B" -> v >= 0 /\ v <= 255
    [] c = "h" -> v >= -32768 /\ v <= 32767
    [] c = "I" -> v >= 0
    [] c \in {"i", "q"} -> TRUE

\* the n little-endian bytes of v in two's complement
RECURSIVE IntBytes(_, _)
IntBytes(v, n) ==
  IF n = 0 THEN <<>> ELSE <<v % 256>> \o IntBytes(v \div 256, n - 1)

\* the unsigned value of little-endian bytes
RECURSIVE UnsignedValue(_)
UnsignedValue(bs) ==
  IF bs = <<>> THEN 0 ELSE Head(bs) + 256 * UnsignedValue(Tail(bs))

\* the two's complement value of little-endian bytes
RECURSIVE SignedValue(_)
SignedValue(bs) ==
  IF Len(bs) = 1
  THEN (IF bs[1] >= 128 THEN bs[1] - 256 ELSE bs[1])
  ELSE Head(bs) + 256 * SignedValue(Tail(bs))

FieldValue(c, bs) ==
  IF c \in {"B", "I"} THEN UnsignedValue(bs) ELSE SignedValue(bs)

\* Struct.size
RECURSIVE StructSize(_)
StructSize(fmt) ==
  IF fmt = <<>> THEN 0 ELSE Width(Head(fmt)) + StructSize(Tail(fmt))

\* whether Struct.pack accepts the values (else struct.error)
RECURSIVE StructCanPack(_, _)
StructCanPack(fmt, vals) ==
  IF fmt = <<>> THEN vals = <<>>
  ELSE IF Head(fmt) = "x" THEN StructCanPack(Tail(fmt), vals)
  ELSE /\ vals # <<>>
       /\ InRange(Head(fmt), Head(vals))
       /\ StructCanPack(Tail(fmt), Tail(vals))

\* Struct.pack
RECURSIVE StructPack(_, _)
StructPack(fmt, vals) ==
  IF fmt = <<>> THEN <<>>
  ELSE IF Head(fmt) = "x" THEN <<0>> \o StructPack(Tail(fmt), vals)
  ELSE IntBytes(Head(vals), Width(Head(fmt)))
         \o StructPack(Tail(fmt), Tail(vals))

\* Struct.unpack of a buffer of exactly Struct.size bytes
RECURSIVE StructUnpack(_, _)
StructUnpack(fmt, bs) ==
  IF fmt = <<>> THEN <<>>
  ELSE LET w == Width(Head(fmt))
           rest == StructUnpack(Tail(fmt), SubSeq(bs, w + 1, Len(bs)))
       IN IF Head(fmt) = "x" THEN rest
          ELSE <<FieldValue(Head(fmt), SubSeq(bs, 1, w))>> \o rest

Zeros(n) == [i \in 1..n |-> 0]

(* ------------------------------- BytesIO ------------------------------- *)

BytesIO(bs) == [buf |-> bs, pos |-> 0]

Seek(io, p) == [io EXCEPT !.pos = p]

SeekCur(io, d) == [io EXCEPT !.pos = io.pos + d]

SeekEnd(io) == [io EXCEPT !.pos = Len(io.buf)]

\* write: the gap between the end and the position is filled with zeros;
\* writing nothing leaves the buffer as it is
Write(io, data) ==
  IF data = <<>> THEN io
  ELSE LET n == Len(data)
           before == IF io.pos <= Len(io.buf)
                     THEN SubSeq(io.buf, 1, io.pos)
                     ELSE io.buf \o Zeros(io.pos - Len(io.buf))
           after == SubSeq(io.buf, io.pos + n + 1, Len(io.buf))
       IN [buf |-> before \o data \o after, pos |-> io.pos + n]

\* read(size): at most size bytes, everything that is left when size < 0
Read(io, size) ==
  LET left == IF Len(io.buf) > io.pos THEN Len(io.buf) - io.pos ELSE 0
      n == IF size < 0 \/ size > left THEN left ELSE size
  IN [data |-> SubSeq(io.buf, io.pos + 1, io.pos + n),
      io |-> [io EXCEPT !.pos = io.pos + n]]

(* ------------------------------- inputs -------------------------------- *)

\* the part classes of the reply path, as `class name(Part): kind = kind`
ReplyClasses ==
  {[name |-> "RowsAffected", kind |-> ROWSAFFECTED],
   [name |-> "Error", kind |-> ERROR],
   [name |-> "ResultSet", kind |-> 5]}

\* all class statements: also a second class of kind 5, a class of the falsy
\* kind 0, and classes whose kind is above and below the int8 range
PartClasses ==
  ReplyClasses \cup
  {[name |-> "ResultSetCopy", kind |-> 5],
   [name |-> "NoKind", kind |-> 0],
   [name |-> "TooHigh", kind |-> 128],
   [name |-> "TooLow", kind |-> -129]}

\* attribute bytes and argument counts of the parts a client builds
Attributes == {0, -1}

ArgumentCounts == {1, 300}

\* the payload pack_data returns: n bytes, each equal to fill
FillBytes == {0, 7}

RECURSIVE PayloadBytes(_, _)
PayloadBytes(n, fill) ==
  IF n = 0 THEN <<>>
  ELSE IF n % 2 = 1 THEN <<fill>> \o PayloadBytes(n - 1, fill)
  ELSE LET half == PayloadBytes(n \div 2, fill) IN half \o half

\* budgets handed to Part.pack when it is called on its own
RemainingSizes == {MAX_SEGMENT_SIZE - SEGMENT_HEADER_SIZE, -8}

\* sequences of at most n elements of S
SeqsUpTo(S, n) == UNION {[1..k -> S] : k \in 0..n}

(* --------------------------------- Part -------------------------------- *)

\* '<bbhiii'
PartHeaderStruct == <<"b", "b", "h", "i", "i", "i">>

bigargumentcount == 0

\* pack_data of a concrete part: its argument count and its payload
pack_data(part) == <<part.arguments_count, PayloadBytes(part.n, part.fill)>>

\* a padding that also pads a payload that is aligned already
Padding_Always(payload_length) == 8 - (payload_length % 8)

\* the number of zero bytes Part.pack appends to a payload
Padding(payload_length) ==
  IF payload_length % 8 # 0 THEN 8 - (payload_length % 8) ELSE 0

\* Part.pack
PartPack(part, remaining_size) ==
  LET arguments_count == pack_data(part)[1]
      payload == pack_data(part)[2]
      payload_length == Len(payload)
      padded == payload \o Zeros(Padding(payload_length))
      fields == <<part.kind, part.attribute, arguments_count,
                  bigargumentcount, payload_length, remaining_size>>
  IN IF StructCanPack(PartHeaderStruct, fields)
     THEN [raised |-> "none",
           bytes |-> StructPack(PartHeaderStruct, fields) \o padded]
     ELSE [raised |-> "struct.error", bytes |-> <<>>]

\* a decoder that reads the declared length only, without the padding
PartPayloadSize_Declared(declared) == declared

\* the number of payload bytes Part.unpack_from reads for a declared length
PartPayloadSize(declared) ==
  IF declared % 8 # 0 THEN declared + 8 - (declared % 8) ELSE declared

\* the part Part.unpack_from builds from a header and the payload it read
DecodedPart(registry, part_header, part_payload) ==
  [cls |-> registry[part_header[1]].name,
   kind |-> registry[part_header[1]].kind,
   init_arguments |-> <<part_header[3], part_payload>>,
   attribute |-> part_header[2],
   source |-> "server"]

\* Part.unpack_from, run to its end as tuple(...) runs it
RECURSIVE PartUnpackFrom(_, _, _, _, _)
PartUnpackFrom(registry, payload, expected_parts, num_parts, parts) ==
  IF ~(expected_parts > num_parts)
  THEN [raised |-> "none", parts |-> parts]
  ELSE
    LET hd == Read(payload, PART_HEADER_SIZE) IN
    IF Len(hd.data) # StructSize(PartHeaderStruct)
    THEN [raised |-> "InterfaceError: No valid part header", parts |-> <<>>]
    ELSE
      LET part_header == StructUnpack(PartHeaderStruct, hd.data)
          pl == Read(hd.io, PartPayloadSize(part_header[5]))
      IN IF part_header[1] \notin DOMAIN registry
         THEN [raised |-> "InterfaceError: Unknown part kind", parts |-> <<>>]
         ELSE PartUnpackFrom(registry, pl.io, expected_parts, num_parts + 1,
                Append(parts, DecodedPart(registry, part_header, pl.data)))

(* ------------------------------- Segment ------------------------------- *)

\* BaseSegment.header_struct '<iihhb'
SegmentHeaderStruct == <<"i", "i", "h", "h", "b">>

\* RequestSegment.request_header_struct 'bbb8x'
RequestHeaderStruct ==
  <<"b", "b", "b", "x", "x", "x", "x", "x", "x", "x", "x">>

\* ReplySegment.reply_header_struct '<bh8B'
ReplyHeaderStruct ==
  <<"b", "h", "B", "B", "B", "B", "B", "B", "B", "B">>

\* segment_kind of the two segment classes
segment_kind(segment) == IF segment.cls = "RequestSegment" THEN 1 ELSE 2

\* header_size of the two segment classes
header_size(segment) ==
  IF segment.cls = "RequestSegment"
  THEN StructSize(SegmentHeaderStruct) + StructSize(RequestHeaderStruct)
  ELSE StructSize(SegmentHeaderStruct) + StructSize(ReplyHeaderStruct)

offset == 0

number == 1

command_options == 0

\* pack_additional_header: RequestSegment packs its three fields; ReplySegment
\* inherits BaseSegment's, whose `raise NotImplemented` is a TypeError
pack_additional_header(segment, commit) ==
  IF segment.cls = "RequestSegment"
  THEN LET fields == <<segment.message_type, IF commit THEN 1 ELSE 0,
                       command_options>>
       IN IF StructCanPack(RequestHeaderStruct, fields)
          THEN [raised |-> "none",
                bytes |-> StructPack(RequestHeaderStruct, fields)]
          ELSE [raised |-> "struct.error", bytes |-> <<>>]
  ELSE [raised |-> "TypeError", bytes |-> <<>>]

\* BaseSegment.build_payload: the loop over the parts, from part i on
RECURSIVE SegmentBuildPayload(_, _, _, _)
SegmentBuildPayload(parts, i, payload, remaining_size) ==
  IF i > Len(parts) THEN [raised |-> "none", io |-> payload]
  ELSE LET part_payload == PartPack(parts[i], remaining_size) IN
       IF part_payload.raised # "none"
       THEN [raised |-> part_payload.raised, io |-> payload]
       ELSE SegmentBuildPayload(parts, i + 1,
              Write(payload, part_payload.bytes),
              remaining_size - Len(part_payload.bytes))

\* a length that counts the parts only
DeclaredSegmentLength_PartsOnly(payload_pos, end_pos, segment) ==
  end_pos - payload_pos - header_size(segment)

\* the length BaseSegment.pack declares: from the place the header starts
\* at to the end of the parts
DeclaredSegmentLength(payload_pos, end_pos, segment) == end_pos - payload_pos

\* BaseSegment.pack(payload, commit=commit)
SegmentPack(segment, payload, commit) ==
  LET payload_pos == payload.pos
      built == SegmentBuildPayload(segment.parts, 1,
                 SeekCur(payload, header_size(segment)),
                 MAX_SEGMENT_SIZE - SEGMENT_HEADER_SIZE)
      payload_length ==
        DeclaredSegmentLength(payload_pos, built.io.pos, segment)
      fields == <<payload_length, offset, Len(segment.parts), number,
                  segment_kind(segment)>>
      additional == pack_additional_header(segment, commit)
  IN IF built.raised # "none" THEN [raised |-> built.raised, io |-> built.io]
     ELSE IF ~StructCanPack(SegmentHeaderStruct, fields)
     THEN [raised |-> "struct.error", io |-> built.io]
     ELSE IF additional.raised # "none"
     THEN [raised |-> additional.raised, io |-> built.io]
     ELSE [raised |-> "none",
           io |-> SeekEnd(Write(Seek(built.io, payload_pos),
                    StructPack(SegmentHeaderStruct, fields)
                      \o additional.bytes))]

(* ------------------------------- Message ------------------------------- *)

\* Message.header_struct 'qiIIhb9B'
MessageHeaderStruct ==
  <<"q", "i", "I", "I", "h", "b", "B", "B", "B", "B", "B", "B", "B", "B", "B">>

\* Message.build_payload: every segment packed with commit = autocommit
RECURSIVE MessageBuildPayload(_, _, _, _)
MessageBuildPayload(segments, i, payload, autocommit) ==
  IF i > Len(segments) THEN [raised |-> "none", io |-> payload]
  ELSE LET packed == SegmentPack(segments[i], payload, autocommit) IN
       IF packed.raised # "none" THEN packed
       ELSE MessageBuildPayload(segments, i + 1, packed.io, autocommit)

\* Message.pack
MessagePack(segments, connection) ==
  LET msg_header_size == StructSize(MessageHeaderStruct)
      built == MessageBuildPayload(segments, 1,
                 SeekCur(BytesIO(<<>>), msg_header_size),
                 connection.autocommit)
      packet_length == Len(built.io.buf) - msg_header_size
      total_space == MAX_MESSAGE_SIZE - MESSAGE_HEADER_SIZE
      count_of_segments == Len(segments)
      fields == <<connection.session_id, connection.packet_count,
                  packet_length, total_space, count_of_segments,
                  0, 0, 0, 0, 0, 0, 0, 0, 0, 0>>
  IN IF built.raised # "none" THEN [raised |-> built.raised, io |-> built.io]
     ELSE IF ~StructCanPack(MessageHeaderStruct, fields)
     THEN [raised |-> "struct.error", io |-> built.io]
     ELSE [raised |-> "none",
           io |-> SeekEnd(Write(Seek(built.io, 0),
                    StructPack(MessageHeaderStruct, fields)))]

(* ----------------------------- ReplySegment ---------------------------- *)

\* the field before it, the int8 that follows the common header
FunctionCodeOf_Int8(header) == header[6]

\* which field of the 8-field segment header ReplySegment.unpack takes as
\* the function code: header[6], counted from 0
FunctionCodeOf(header) == header[7]

\* ReplySegment.unpack(header, payload)
ReplySegmentUnpack(registry, header, payload) ==
  LET decoded == PartUnpackFrom(registry, payload, header[3], 0, <<>>)
  IN [raised |-> decoded.raised,
      segment |-> [cls |-> "ReplySegment",
                   function_code |-> FunctionCodeOf(header),
                   parts |-> decoded.parts]]

\* the size ReplySegment.unpack_from hands to payload.read
SegmentPayloadSize(expected_segments, segment_header) ==
  IF expected_segments = 1 THEN -1
  ELSE segment_header[1] - SEGMENT_HEADER_SIZE

\* a dispatch that raises for rows-affected only
ErrorDispatch_RowsOnly(error) ==
  IF error.parts = <<>> THEN [raised |-> "IndexError", carries |-> <<>>]
  ELSE IF error.parts[1].kind = ROWSAFFECTED
  THEN [raised |-> "Exception: Rows affected",
        carries |-> error.parts[1].init_arguments]
  ELSE [raised |-> "none", carries |-> <<>>]

\* what the branch for an Error segment does with the decoded segment:
\* raise, or fall through to the next turn of the loop
ErrorDispatch(error) ==
  IF error.parts = <<>> THEN [raised |-> "IndexError", carries |-> <<>>]
  ELSE IF error.parts[1].kind = ROWSAFFECTED
  THEN [raised |-> "Exception: Rows affected",
        carries |-> error.parts[1].init_arguments]
  ELSE IF error.parts[1].kind = ERROR
  THEN [raised |-> "part.errors[0]",
        carries |-> error.parts[1].init_arguments]
  ELSE [raised |-> "none", carries |-> <<>>]

\* ReplySegment.unpack_from, run to its end as tuple(...) runs it.  log is
\* what the loop tells the 'receive' logger each turn: the header it read and
\* the number of payload bytes it read for it
RECURSIVE ReplyUnpackFrom(_, _, _, _, _, _)
ReplyUnpackFrom(registry, payload, expected_segments, num_segments, segments, log) ==
  IF ~(num_segments < expected_segments)
  THEN [raised |-> "none", carries |-> <<>>, segments |-> segments,
        log |-> log, pos |-> payload.pos]
  ELSE
    LET base == Read(payload, 13)
        more == Read(base.io, 11)
    IN
    IF Len(base.data) # StructSize(SegmentHeaderStruct)
    THEN [raised |-> "Exception: No valid segment header",
          carries |-> <<>>, segments |-> segments, log |-> log,
          pos |-> base.io.pos]
    ELSE IF Len(more.data) # StructSize(ReplyHeaderStruct)
    THEN [raised |-> "Exception: No valid reply segment header",
          carries |-> <<>>, segments |-> segments, log |-> log,
          pos |-> more.io.pos]
    ELSE
      LET base_segment_header == StructUnpack(SegmentHeaderStruct, base.data)
          segment_header ==
            base_segment_header \o StructUnpack(ReplyHeaderStruct, more.data)
          segment_payload_size ==
            SegmentPayloadSize(expected_segments, segment_header)
          pl == Read(more.io, segment_payload_size)
          log2 == Append(log, [header |-> segment_header,
                               at |-> payload.pos,
                               read |-> Len(pl.data)])
          unpacked == ReplySegmentUnpack(registry, segment_header,
                                         BytesIO(pl.data))
      IN
      IF base_segment_header[5] = 2
      THEN IF unpacked.raised # "none"
           THEN [raised |-> unpacked.raised, carries |-> <<>>,
                 segments |-> segments, log |-> log2, pos |-> pl.io.pos]
           ELSE ReplyUnpackFrom(registry, pl.io, expected_segments,
                  num_segments + 1, Append(segments, unpacked.segment), log2)
      ELSE IF base_segment_header[5] = 5
      THEN IF unpacked.raised # "none"
           THEN [raised |-> unpacked.raised, carries |-> <<>>,
                 segments |-> segments, log |-> log2, pos |-> pl.io.pos]
           ELSE IF ErrorDispatch(unpacked.segment).raised # "none"
           THEN [raised |-> ErrorDispatch(unpacked.segment).raised,
                 carries |-> ErrorDispatch(unpacked.segment).carries,
                 segments |-> segments, log |-> log2, pos |-> pl.io.pos]
           ELSE ReplyUnpackFrom(registry, pl.io, expected_segments,
                  num_segments + 1, segments, log2)
      ELSE [raised |-> "Exception: Invalid reply segment", carries |-> <<>>,
            segments |-> segments, log |-> log2, pos |-> pl.io.pos]

\* Message.unpack_reply(connection, header, payload)
MessageUnpackReply(registry, header, payload) ==
  LET r == ReplyUnpackFrom(registry, payload, header[5], 0, <<>>, <<>>)
  IN [raised |-> r.raised, carries |-> r.carries, log |-> r.log,
      pos |-> r.pos, yielded |-> r.segments,
      reply |-> IF r.raised = "none"
                THEN [segments |-> r.segments, session_id |-> header[1],
                      packet_count |-> header[2]]
                ELSE <<>>]

(* -------------------------------- state -------------------------------- *)

\* part_mapping: the registry, kind -> class
\* classes:      the part classes defined so far, name -> kind
\* call:         the call made last, with its arguments and its outcome

Init ==
  /\ part_mapping = <<>>
  /\ classes = <<>>
  /\ call = [op |-> "idle"]

\* nothing but class statements has run yet
Starting == call.op \in {"idle", "PartMeta.__new__"}

\* part_mapping[part_class.kind] = part_class
Registered(registry, name, kind) ==
  (kind :> [name |-> name, kind |-> kind]) @@ registry

\* PartMeta.__new__ for the class statement `class name(Part): kind = kind`
DefinePart(name, kind) ==
  /\ Starting
  /\ name \notin DOMAIN classes
  /\ IF kind # 0
     THEN IF ~(-128 <= kind /\ kind <= 127)
          THEN /\ call' = [op |-> "PartMeta.__new__", name |-> name,
                           kind |-> kind, raised |-> "InterfaceError"]
               /\ UNCHANGED <<part_mapping, classes>>
          ELSE /\ part_mapping' = Registered(part_mapping, name, kind)
               /\ classes' = (name :> kind) @@ classes
               /\ call' = [op |-> "PartMeta.__new__", name |-> name,
                           kind |-> kind, raised |-> "none"]
     ELSE /\ classes' = (name :> kind) @@ classes
          /\ call' = [op |-> "PartMeta.__new__", name |-> name,
                      kind |-> kind, raised |-> "none"]
          /\ UNCHANGED part_mapping

(* ---------------------------- the part alone --------------------------- *)

\* the parts a client can build from the classes defined
ClientParts ==
  [cls : DOMAIN classes, kind : {classes[c] : c \in DOMAIN classes},
   attribute : Attributes, arguments_count : ArgumentCounts,
   n : 0..MaxLen, fill : FillBytes]

\* part.pack(remaining_size)
PackPart ==
  /\ Starting
  /\ \E part \in ClientParts, remaining_size \in RemainingSizes :
       /\ part.kind = classes[part.cls]
       /\ call' = [op |-> "Part.pack", part |-> part,
                   remaining_size |-> remaining_size,
                   raised |-> PartPack(part, remaining_size).raised,
                   bytes |-> PartPack(part, remaining_size).bytes]
  /\ UNCHANGED <<part_mapping, classes>>

\* tuple(Part.unpack_from(BytesIO(bytes), expected_parts)) on the bytes of
\* the part packed last
UnpackPart ==
  /\ call.op = "Part.pack"
  /\ call.raised = "none"
  /\ \E expected_parts \in 0..2 :
       LET r == PartUnpackFrom(part_mapping, BytesIO(call.bytes),
                               expected_parts, 0, <<>>)
       IN call' = [op |-> "Part.unpack_from", part |-> call.part,
                   bytes |-> call.bytes, expected_parts |-> expected_parts,
                   raised |-> r.raised, parts |-> r.parts]
  /\ UNCHANGED <<part_mapping, classes>>

Next ==
  \/ \E c \in PartClasses : DefinePart(c.name, c.kind)
  \/ PackPart
  \/ UnpackPart

Spec == Init /\ [][Next]_vars

(* --------------------------- packing a segment ------------------------- *)

MessageTypes == {2, 3}

\* the parts of the segments packed
SegmentParts ==
  [kind : {5}, attribute : {0}, arguments_count : {1}, n : 0..MaxLen,
   fill : {7}]

RequestSegments(P) ==
  [cls : {"RequestSegment"}, message_type : MessageTypes, parts : P]

ReplySegments(P) ==
  [cls : {"ReplySegment"}, function_code : {0}, parts : P]

\* where in an empty buffer the segment starts: at 0, or behind the place
\* Message.pack keeps for its header
StartPositions == {0, MESSAGE_HEADER_SIZE}

\* segment.pack(payload, commit=commit) with payload an empty buffer sought to
\* payload_pos
PackSegment ==
  /\ call.op = "idle"
  /\ \E segment \in RequestSegments(SeqsUpTo(SegmentParts, MaxParts))
                     \cup ReplySegments(SeqsUpTo(SegmentParts, MaxParts)),
        commit \in BOOLEAN, payload_pos \in StartPositions :
       LET r == SegmentPack(segment, Seek(BytesIO(<<>>), payload_pos), commit)
       IN call' = [op |-> "BaseSegment.pack", segment |-> segment,
                   commit |-> commit, payload_pos |-> payload_pos,
                   raised |-> r.raised, buf |-> r.io.buf]
  /\ UNCHANGED <<part_mapping, classes>>

NextSegment == PackSegment

SpecSegment == Init /\ [][NextSegment]_vars

(* --------------------------- packing a message ------------------------- *)

\* payload lengths of the parts of a message: none, short, and as long as
\* the largest message
MessagePayloadLengths == {0, 5, MAX_MESSAGE_SIZE}

MessageParts ==
  [kind : {5}, attribute : {0}, arguments_count : {1},
   n : MessagePayloadLengths, fill : {7}]

MessageSegments ==
  [cls : {"RequestSegment"}, message_type : {3},
   parts : SeqsUpTo(MessageParts, MaxParts)]

\* the connection of the message: its session id (-1 before the session is
\* set up), the packet count it hands out, autocommit
Connections ==
  [session_id : {-1}, packet_count : {0}, autocommit : BOOLEAN]

\* message.pack(): the size of the buffer it returns and the buffer's first
\* 32 bytes
PackMessage ==
  /\ call.op = "idle"
  /\ \E segments \in SeqsUpTo(MessageSegments, MaxSegments),
        connection \in Connections :
     \E r \in {MessagePack(segments, connection)} :
       call' = [op |-> "Message.pack", segments |-> segments,
                connection |-> connection, raised |-> r.raised,
                size |-> IF r.raised = "none" THEN Len(r.io.buf) ELSE 0,
                head |-> IF r.raised = "none"
                         THEN SubSeq(r.io.buf, 1, MESSAGE_HEADER_SIZE)
                         ELSE <<>>]
  /\ UNCHANGED <<part_mapping, classes>>

NextMessage == PackMessage

SpecMessage == Init /\ [][NextMessage]_vars

(* --------------------------- unpacking a reply ------------------------- *)

\* the parts a server puts into a reply
ReplyParts ==
  [kind : {c.kind : c \in ReplyClasses}, attribute : {0},
   arguments_count : {1}, n : {4}, fill : {7}]

\* the function-code byte and the 16-bit field behind it
FunctionFields == {<<1, 300>>, <<2, -2>>}

\* a segment as the server sends it: its kind, its parts, the two fields
\* behind the common header, and the length it declares: the segment's own,
\* or one below the size of the header
ServerSegments ==
  [segment_kind : {1, 2, 5}, parts : SeqsUpTo(ReplyParts, MaxReplyParts),
   function : FunctionFields, declares : {"exact", "less"}]

RECURSIVE PartsBytes(_)
PartsBytes(parts) ==
  IF parts = <<>> THEN <<>>
  ELSE PartPack(Head(parts), 0).bytes \o PartsBytes(Tail(parts))

ServerSegmentBytes(s) ==
  LET body == PartsBytes(s.parts)
      exact == SEGMENT_HEADER_SIZE + Len(body)
      declared == IF s.declares = "exact" THEN exact
                  ELSE SEGMENT_HEADER_SIZE - 8
  IN StructPack(SegmentHeaderStruct,
                <<declared, 0, Len(s.parts), 1, s.segment_kind>>)
       \o StructPack(ReplyHeaderStruct,
                     <<s.function[1], s.function[2], 0, 0, 0, 0, 0, 0, 0, 0>>)
       \o body

RECURSIVE ServerBody(_)
ServerBody(server) ==
  IF server = <<>> THEN <<>>
  ELSE ServerSegmentBytes(Head(server)) \o ServerBody(Tail(server))

\* an ordinary reply segment: one result-set part, its own length declared
PlainSegment ==
  [segment_kind |-> 2,
   parts |-> <<[kind |-> 5, attribute |-> 0, arguments_count |-> 1,
                n |-> 4, fill |-> 7]>>,
   function |-> <<1, 300>>, declares |-> "exact"]

\* the segments of a reply body: ordinary segments, and among them at most
\* one segment of any shape
ServerReplies ==
  {<<>>} \cup
  {[i \in 1..n |-> IF i = at THEN s ELSE PlainSegment] :
     s \in ServerSegments, n \in 1..MaxReplySegments,
     at \in 1..MaxReplySegments}

\* the message header Message.unpack_reply is given, as struct.unpack
\* returned it
ReplyHeader(session_id, packet_count, body, segment_count) ==
  <<session_id, packet_count, Len(body), MAX_MESSAGE_SIZE - MESSAGE_HEADER_SIZE,
    segment_count, 0, 0, 0, 0, 0, 0, 0, 0, 0, 0>>

\* the class statements of the reply path, in the order the module runs them
ReplyClassStatements ==
  <<[name |-> "RowsAffected", kind |-> ROWSAFFECTED],
    [name |-> "Error", kind |-> ERROR],
    [name |-> "ResultSet", kind |-> 5]>>

\* the call record of Message.unpack_reply
ReplyOutcome(server, header, body, r) ==
  [op |-> "Message.unpack_reply", server |-> server, header |-> header,
   body |-> body, raised |-> r.raised, carries |-> r.carries,
   log |-> r.log, pos |-> r.pos, yielded |-> r.yielded, reply |-> r.reply]

\* Message.unpack_reply(connection, header, BytesIO(body))
UnpackReply ==
  /\ Starting
  /\ \E server \in ServerReplies, segment_count \in 0..MaxReplySegments :
       LET body == ServerBody(server)
           header == ReplyHeader(3, 1, body, segment_count)
       IN call' = ReplyOutcome(server, header, body,
                    MessageUnpackReply(part_mapping, header, BytesIO(body)))
  /\ UNCHANGED <<part_mapping, classes>>

\* the next class statement of the module
DefineReplyPart ==
  \E i \in 1..Len(ReplyClassStatements) :
    /\ i = Cardinality(DOMAIN classes) + 1
    /\ DefinePart(ReplyClassStatements[i].name, ReplyClassStatements[i].kind)

NextReply ==
  \/ DefineReplyPart
  \/ UnpackReply

SpecReply == Init /\ [][NextReply]_vars

(* -------------------------------- claims ------------------------------- *)

\* the common header of the segment packed last, read back from the buffer
PackedSegmentHeader ==
  StructUnpack(SegmentHeaderStruct,
               SubSeq(call.buf, call.payload_pos + 1,
                      call.payload_pos + StructSize(SegmentHeaderStruct)))

PackedASegment == call.op = "BaseSegment.pack" /\ call.raised = "none"

UnpackedAReply == call.op = "Message.unpack_reply"

\* C2: a reply that Message.unpack_reply returns holds as many segments as
\* its header declares, and no Error segment (kind 5) was read on the way:
\* each one read ends the call with a raised condition.
C2_NoErrorSegmentSkipped ==
  (UnpackedAReply /\ call.raised = "none") =>
    /\ Len(call.reply.segments) = call.header[5]
    /\ \A i \in DOMAIN call.log : call.log[i].header[5] # 5

\* C3: with more than one segment expected, every turn of the loop reads
\* exactly the declared payload length minus 24 bytes as the payload, whatever
\* the declared length is, and a reply that is returned has consumed the body
\* to its end.
C3_ReadsDeclaredLength ==
  (UnpackedAReply /\ call.header[5] > 1) =>
    /\ \A i \in DOMAIN call.log :
         call.log[i].read = call.log[i].header[1] - SEGMENT_HEADER_SIZE
    /\ call.raised = "none" => call.pos = Len(call.body)

PackedAMessage == call.op = "Message.pack"

\* the header of the message packed last, read back from the buffer
PackedMessageHeader == StructUnpack(MessageHeaderStruct, call.head)

\* C4: the buffer Message.pack returns is at most 2^17 bytes long, and its
\* first 32 bytes are the header, which declares the rest as packet length.
C4_AtMostMaxMessageSize ==
  (PackedAMessage /\ call.raised = "none") =>
    /\ call.size <= MAX_MESSAGE_SIZE
    /\ Len(call.head) = MESSAGE_HEADER_SIZE
    /\ PackedMessageHeader[3] = call.size - MESSAGE_HEADER_SIZE

\* C5: a class statement whose kind is outside [-128,127], or is the kind of
\* a registered class, ends with an error; the registry never holds a kind
\* outside the range, and a kind once registered stays bound to its class.
C5_RegistrationRejects ==
  [][/\ \A k \in DOMAIN part_mapping :
          /\ k \in DOMAIN part_mapping'
          /\ part_mapping'[k] = part_mapping[k]
     /\ \A k \in DOMAIN part_mapping' : -128 <= k /\ k <= 127
     /\ (/\ call'.op = "PartMeta.__new__"
         /\ \/ ~(-128 <= call'.kind /\ call'.kind <= 127)
            \/ call'.kind \in DOMAIN part_mapping)
        => call'.raised # "none"]_vars

\* the log entries of the segments the loop yielded, in order
YieldedEntries == SelectSeq(call.log, LAMBDA e : e.header[5] = 2)

\* C6, as claimed: the function code of every segment of a returned reply is
\* the int8 at offset 13 of the segment's header, the byte that follows the
\* common header.
C6_FunctionCodeIsInt8 ==
  (UnpackedAReply /\ call.raised = "none") =>
    /\ Len(call.reply.segments) = Len(YieldedEntries)
    /\ \A i \in DOMAIN call.reply.segments :
         call.reply.segments[i].function_code
           = SignedValue(<<call.body[YieldedEntries[i].at + 14]>>)

\* C6, amended: the function code of every segment of a returned reply is
\* the little-endian int16 at offsets 14 and 15 of the segment's header, the
\* field that follows the int8 behind the common header.
C6_FunctionCodeIsInt16 ==
  (UnpackedAReply /\ call.raised = "none") =>
    /\ Len(call.reply.segments) = Len(YieldedEntries)
    /\ \A i \in DOMAIN call.reply.segments :
         call.reply.segments[i].function_code
           = SignedValue(SubSeq(call.body, YieldedEntries[i].at + 15,
                                YieldedEntries[i].at + 16))

\* a reply was returned whose first segment carries 1 in the int8 and 300 in
\* the int16, and has the function code 300
C6_Witness ==
  /\ UnpackedAReply
  /\ call.raised = "none"
  /\ Len(call.reply.segments) >= 1
  /\ call.server[1].function = <<1, 300>>
  /\ call.reply.segments[1].function_code = 300

\* the kinds of the parts of the first j segments are all registered
KindsRegistered(j) ==
  \A i \in 1..j : \A p \in DOMAIN call.server[i].parts :
    call.server[i].parts[p].kind \in DOMAIN part_mapping

\* the loop reaches segment j of the body, an Error segment with a part, and
\* decodes its parts: the segments before it are Reply segments, every part
\* up to it is of a registered kind, and its payload is framed as it was sent
ReachesErrorSegment(j) ==
  /\ UnpackedAReply
  /\ j \in DOMAIN call.server
  /\ j <= call.header[5]
  /\ call.server[j].segment_kind = 5
  /\ call.server[j].parts # <<>>
  /\ \A i \in 1..(j - 1) : call.server[i].segment_kind = 2
  /\ KindsRegistered(j)
  /\ \/ call.header[5] = 1
     \/ \A i \in 1..j : call.server[i].declares = "exact"

\* what the decoder of a part's kind is given for a part the server sent
SentArguments(part) ==
  <<part.arguments_count,
    PayloadBytes(part.n, part.fill) \o Zeros((8 - (part.n % 8)) % 8)>>

\* C7: an Error segment with at least one part whose first part is of the
\* rows-affected kind ends the call with the rows-affected condition, which
\* carries that part's values; one whose first part is of the error kind ends
\* it with the part's first error; in both cases nothing is yielded for the
\* segment and no reply is returned.
C7_ErrorDispatch ==
  \A j \in 1..MaxReplySegments :
    ReachesErrorSegment(j) =>
      LET first == call.server[j].parts[1] IN
      /\ first.kind = ROWSAFFECTED =>
           /\ call.raised = "Exception: Rows affected"
           /\ call.carries = SentArguments(first)
           /\ Len(call.yielded) = j - 1
           /\ call.reply = <<>>
      /\ first.kind = ERROR =>
           /\ call.raised = "part.errors[0]"
           /\ call.carries = SentArguments(first)
           /\ Len(call.yielded) = j - 1
           /\ call.reply = <<>>

\* the second segment of a body of two is an Error segment whose first part
\* is of the error kind, and the call ended with that part's error after it
\* had yielded the first segment
C7_Witness ==
  /\ ReachesErrorSegment(2)
  /\ call.server[2].parts[1].kind = ERROR
  /\ call.raised = "part.errors[0]"
  /\ Len(call.yielded) = 1

RoundTrip ==
  /\ call.op = "Part.unpack_from"
  /\ call.expected_parts = 1
  /\ call.part.kind \in DOMAIN part_mapping

\* C8, as claimed: a part of a registered kind that is packed and unpacked
\* with one part expected comes back as one part of the same kind, its
\* decoder given the argument count and the payload as it was packed, with
\* the attribute of the header and the source 'server'.
C8_RoundTripPayload ==
  RoundTrip =>
    /\ call.raised = "none"
    /\ Len(call.parts) = 1
    /\ call.parts[1].kind = call.part.kind
    /\ call.parts[1].init_arguments
         = <<call.part.arguments_count,
             PayloadBytes(call.part.n, call.part.fill)>>
    /\ call.parts[1].attribute = call.part.attribute
    /\ call.parts[1].source = "server"

\* C8, amended: a part of a registered kind that is packed and unpacked with
\* one part expected comes back as one part of the same kind, its decoder
\* given the argument count and the payload followed by the zero bytes that
\* pad it to a multiple of 8, with the attribute of the header and the source
\* 'server'.
C8_RoundTripPaddedPayload ==
  RoundTrip =>
    /\ call.raised = "none"
    /\ Len(call.parts) = 1
    /\ call.parts[1].kind = call.part.kind
    /\ call.parts[1].init_arguments
         = <<call.part.arguments_count,
             PayloadBytes(call.part.n, call.part.fill)
               \o Zeros((8 - (call.part.n % 8)) % 8)>>
    /\ call.parts[1].attribute = call.part.attribute
    /\ call.parts[1].source = "server"

\* a part with 5 payload bytes and the attribute -1 went through pack and
\* unpack: its decoder was given 8 bytes
C8_Witness ==
  /\ RoundTrip
  /\ call.part.n = 5
  /\ call.part.attribute = -1
  /\ Len(call.parts) = 1
  /\ Len(call.parts[1].init_arguments[2]) = 8

\* the size of a segment packed on its own
RECURSIVE EncodedSizes(_, _)
EncodedSizes(segments, commit) ==
  IF segments = <<>> THEN 0
  ELSE Len(SegmentPack(Head(segments), BytesIO(<<>>), commit).io.buf)
         + EncodedSizes(Tail(segments), commit)

\* C9: Message.pack succeeds for a message of any number of segments, none
\* included; the buffer is 32 bytes plus the sizes of the segments, and its
\* header declares the packet length (the size minus 32), the total space
\* 131072 - 32 and the number of segments.
C9_PackSucceeds ==
  PackedAMessage =>
    /\ call.raised = "none"
    /\ call.size = MESSAGE_HEADER_SIZE
                     + EncodedSizes(call.segments, call.connection.autocommit)
    /\ PackedMessageHeader[3] = call.size - MESSAGE_HEADER_SIZE
    /\ PackedMessageHeader[4] = 131072 - 32
    /\ PackedMessageHeader[5] = Len(call.segments)

PackedAPart == call.op = "Part.pack" /\ call.raised = "none"

\* the bytes of the part packed last that follow its header
TransmittedPayload ==
  SubSeq(call.bytes, PART_HEADER_SIZE + 1, Len(call.bytes))

\* C10: the payload a packed part transmits behind its 16-byte header is the
\* payload followed by the fewest zero bytes that make its length a multiple
\* of 8 (none for a payload that is aligned or empty), and the header
\* declares the length of the payload without the padding.
C10_PaddedToEight ==
  PackedAPart =>
    /\ Len(TransmittedPayload) % 8 = 0
    /\ Len(TransmittedPayload) - call.part.n \in 0..7
    /\ \A i \in DOMAIN TransmittedPayload :
         TransmittedPayload[i] = IF i <= call.part.n THEN call.part.fill ELSE 0
    /\ SignedValue(SubSeq(call.bytes, 9, 12)) = call.part.n

\* a part with 5 payload bytes was packed: 3 zero bytes follow them
C10_Witness ==
  /\ PackedAPart
  /\ call.part.n = 5
  /\ Len(TransmittedPayload) = 8

====
